---------------------------- MODULE Spec2Model ----------------------------
(***************************************************************************)
(* A model of domain_admin/utils/cert_util.py: fetching the TLS            *)
(* certificate of a host and normalising it into a summary record.         *)
(*                                                                         *)
(* A Python str is a sequence of one-character strings, a dict is a        *)
(* function whose DOMAIN is its key set, and an optional value is a        *)
(* sequence of length 0 or 1.  A call of one of the module's functions is  *)
(* a run of the state machine: `entry' is the function called, `pc' the    *)
(* position in it.                                                         *)
(***************************************************************************)
EXTENDS Integers, Sequences, FiniteSets, TLC

VARIABLES
    entry,       \* the function of cert_util.py that the caller invoked
    pc,          \* position in the running call
    input,       \* domain_with_port, the argument of the call
    domain,      \* local `domain' (get_cert_info) / `host' (get_domain_cert)
    port,        \* local `port'
    context,     \* local `context' of get_domain_cert: <<>> or <<SSLContext>>
    sock,        \* the TCP socket of socket.create_connection
    wrap_socket, \* the SSLSocket of context.wrap_socket
    progress,    \* handshake flights received from the server so far
    elapsed,     \* seconds the handshake has been blocked so far
    peer,        \* what the server turned out to be (environment)
    cert,        \* local `cert': <<>> or <<dict of getpeercert()>>
    issuer,      \* local `issuer' (flattened)
    subject,     \* local `subject' (flattened)
    ip,          \* result of get_domain_ip
    cert_tuple,  \* argument of _tuple_to_dict
    data,        \* argument of _name_convert / result of _tuple_to_dict
    result,      \* <<>> or <<value returned to the caller>>
    exc,         \* <<>> or <<exception propagating / raised to the caller>>
    events       \* history: the stages run, sockets opened and closed, in order

vars == <<entry, pc, input, domain, port, context, sock, wrap_socket, progress,
          elapsed, peer, cert, issuer, subject, ip, cert_tuple, data, result,
          exc, events>>

-----------------------------------------------------------------------------
(* Bounds of the model. *)

\* longest domain_with_port given to parse_domain_with_port alone
MaxLen == 4
\* longest all-digit port text tried after "h:"
MaxDigits == 5
\* longest domain_with_port given to get_cert_info
MaxInfoLen == 3
\* most RDN groups in a name given to _tuple_to_dict alone
MaxRdn == 3
\* most RDN groups in the issuer and the subject of a fetched certificate
MaxPeerRdn == 1
\* flights the server sends in one TLS handshake
HandshakeFlights == 2
\* seconds a handshake without deadline is followed while it blocks
MaxBlocked == 6

(* Program constants. *)

SSL_DEFAULT_PORT == 443
DEFAULT_SOCKET_TIMEOUT == 5

-----------------------------------------------------------------------------
(* Python strings. *)

Digits == {"0", "1", "2", "3", "4", "5", "6", "7", "8", "9"}

DigitValue(c) ==
    CASE c = "0" -> 0 [] c = "1" -> 1 [] c = "2" -> 2 [] c = "3" -> 3
      [] c = "4" -> 4 [] c = "5" -> 5 [] c = "6" -> 6 [] c = "7" -> 7
      [] c = "8" -> 8 [] c = "9" -> 9

\* `c in s'
Contains(s, c) == \E i \in DOMAIN s : s[i] = c

\* s.split(c): the pieces of s between the occurrences of c (never empty)
RECURSIVE Split(_, _)
Split(s, c) ==
    IF ~Contains(s, c) THEN <<s>>
    ELSE LET i == CHOOSE k \in DOMAIN s :
                      s[k] = c /\ \A j \in 1..(k - 1) : s[j] # c
         IN  <<SubSeq(s, 1, i - 1)>> \o Split(SubSeq(s, i + 1, Len(s)), c)

\* s.strip() for the whitespace of the alphabet
RECURSIVE LStrip(_)
LStrip(s) == IF s # <<>> /\ Head(s) = " " THEN LStrip(Tail(s)) ELSE s

RECURSIVE RStrip(_)
RStrip(s) ==
    IF s # <<>> /\ s[Len(s)] = " " THEN RStrip(SubSeq(s, 1, Len(s) - 1)) ELSE s

Strip(s) == RStrip(LStrip(s))

\* the digits of an int() literal: digits, single underscores only between them
WellFormedDigits(s) ==
    /\ s # <<>>
    /\ \A i \in DOMAIN s : s[i] \in Digits \/ s[i] = "_"
    /\ s[1] \in Digits
    /\ s[Len(s)] \in Digits
    /\ \A i \in 1..(Len(s) - 1) : ~(s[i] = "_" /\ s[i + 1] = "_")

RECURSIVE DigitsValue(_)
DigitsValue(s) ==
    IF s = <<>> THEN 0
    ELSE LET c    == s[Len(s)]
             rest == SubSeq(s, 1, Len(s) - 1)
         IN  IF c = "_" THEN DigitsValue(rest)
             ELSE 10 * DigitsValue(rest) + DigitValue(c)

\* int(text) of a str, base 10: [ok |-> TRUE, value |-> n], or ok = FALSE for
\* ValueError("invalid literal for int() with base 10")
int(text) ==
    LET t      == Strip(text)
        signed == t # <<>> /\ Head(t) \in {"+", "-"}
        body   == IF signed THEN Tail(t) ELSE t
    IN  IF WellFormedDigits(body)
        THEN [ok |-> TRUE,
              value |-> IF signed /\ Head(t) = "-"
                        THEN 0 - DigitsValue(body) ELSE DigitsValue(body)]
        ELSE [ok |-> FALSE, value |-> 0]

-----------------------------------------------------------------------------
(* Outcomes of a call: a returned value or a raised exception. *)

Return(v) == [kind |-> "return", value |-> v, exc |-> ""]
Raise(e)  == [kind |-> "raise", value |-> <<>>, exc |-> e]


\* parse_domain_with_port with the port text dropped: always the default port
parse_domain_with_port_ignores_port(domain_with_port) ==
    IF Contains(domain_with_port, ":")
    THEN LET parts == Split(domain_with_port, ":")
         IN  IF Len(parts) # 2
             THEN Raise("ValueError")
             ELSE Return([domain |-> parts[1], port |-> SSL_DEFAULT_PORT])
    ELSE Return([domain |-> domain_with_port, port |-> SSL_DEFAULT_PORT])

(* parse_domain_with_port(domain_with_port) *)

parse_domain_with_port(domain_with_port) ==
    IF Contains(domain_with_port, ":")
    THEN LET parts == Split(domain_with_port, ":")
         IN  IF Len(parts) # 2
             THEN Raise("ValueError")      \* too many values to unpack
             ELSE LET n == int(parts[2])   \* a str is not an int: int(port)
                  IN  IF ~n.ok THEN Raise("ValueError")
                      ELSE Return([domain |-> parts[1], port |-> n.value])
    ELSE Return([domain |-> domain_with_port, port |-> SSL_DEFAULT_PORT])

-----------------------------------------------------------------------------
(* Python dicts. *)

EmptyDict == <<>>

\* d[k] = v
Put(d, k, v) == [x \in (DOMAIN d) \cup {k} |-> IF x = k THEN v ELSE d[x]]

\* d.get(k, default)
Get(d, k, default) == IF k \in DOMAIN d THEN d[k] ELSE default

(* _tuple_to_dict(cert_tuple): for item in cert_tuple, in order,           *)
(* data[item[0][0]] = item[0][1] (Python indexes from 0, TLA+ from 1).     *)

RECURSIVE TupleLoop(_, _, _)
TupleLoop(items, i, d) ==
    IF i > Len(items) THEN d
    ELSE LET item == items[i]
         IN  TupleLoop(items, i + 1, Put(d, item[1][1], item[1][2]))


\* _tuple_to_dict keeping the first value of a repeated attribute
RECURSIVE TupleLoopFirstWins(_, _, _)
TupleLoopFirstWins(items, i, d) ==
    IF i > Len(items) THEN d
    ELSE LET item == items[i]
         IN  TupleLoopFirstWins(items, i + 1,
                 IF item[1][1] \in DOMAIN d THEN d
                 ELSE Put(d, item[1][1], item[1][2]))

_tuple_to_dict_first_wins(items) == TupleLoopFirstWins(items, 1, EmptyDict)

_tuple_to_dict(items) == TupleLoop(items, 1, EmptyDict)

(* _name_convert(data) *)

name_map ==
    [C  |-> "countryName",
     CN |-> "commonName",
     O  |-> "organizationName",
     OU |-> "organizationalUnitName",
     L  |-> "localityName",
     ST |-> "stateOrProvinceName"]


\* _name_convert leaving out the short codes whose long name is absent
_name_convert_skips_missing(d) ==
    [key \in {k \in DOMAIN name_map : name_map[k] \in DOMAIN d}
        |-> d[name_map[key]]]

_name_convert(d) == [key \in DOMAIN name_map |-> Get(d, name_map[key], "")]

(* _parse_time(time_str): parser.parse(time_str).astimezone()              *)
(*                              .strftime(DATETIME_FORMAT).                *)
(* The host's local zone is `offset' hours east of UTC.  A rendered time   *)
(* is the tuple of the six fields of '%Y-%m-%d %H:%M:%S'.                  *)

\* the timestamps a certificate may carry: ssl's own format, and junk
TimeStrings == {"Jan  1 00:00:00 2030 GMT", "Dec 31 23:30:00 2029 GMT", "junk"}

\* dateutil's parser.parse on them: an aware UTC datetime, or ValueError
parser_parse(time_str) ==
    CASE time_str = "Jan  1 00:00:00 2030 GMT" ->
            Return([year |-> 2030, month |-> 1, day |-> 1,
                    hour |-> 0, minute |-> 0, second |-> 0])
      [] time_str = "Dec 31 23:30:00 2029 GMT" ->
            Return([year |-> 2029, month |-> 12, day |-> 31,
                    hour |-> 23, minute |-> 30, second |-> 0])
      [] OTHER -> Raise("ParserError")

\* the day after (year, month, day), for the days the model's instants fall on
NextDay(t) ==
    IF t.month = 12 /\ t.day = 31
    THEN [t EXCEPT !.year = t.year + 1, !.month = 1, !.day = 1]
    ELSE [t EXCEPT !.day = t.day + 1]

\* datetime.astimezone() to a zone `offset' whole hours east of UTC
astimezone(t, offset) ==
    IF t.hour + offset >= 24
    THEN [NextDay(t) EXCEPT !.hour = t.hour + offset - 24]
    ELSE [t EXCEPT !.hour = t.hour + offset]

strftime(t) == <<t.year, t.month, t.day, t.hour, t.minute, t.second>>

_parse_time(time_str, offset) ==
    LET parsed == parser_parse(time_str)
    IN  IF parsed.kind = "raise" THEN parsed
        ELSE Return(strftime(astimezone(parsed.value, offset)))

\* UTC offsets of the hosts the check runs on
LocalUtcOffsets == {0, 8}

-----------------------------------------------------------------------------
(* The ssl module, as far as create_ssl_context and get_domain_cert use it. *)

(* What ssl._create_unverified_context(check_hostname=...) does depends on *)
(* the interpreter the program runs on:                                    *)
(*   "absent"   the function does not exist (AttributeError);              *)
(*   "rejects"  check_hostname=True together with the function's own       *)
(*              cert_reqs=CERT_NONE raises ValueError (Python < 3.7:       *)
(*              "check_hostname needs a SSL context with either            *)
(*              CERT_OPTIONAL or CERT_REQUIRED"; Python >= 3.10: "Cannot   *)
(*              set verify_mode to CERT_NONE when check_hostname is        *)
(*              enabled");                                                 *)
(*   "upgrades" setting check_hostname after verify_mode silently turns    *)
(*              verify_mode into CERT_REQUIRED (Python 3.7 to 3.9).        *)
Runtimes == {"absent", "rejects", "upgrades"}

SSLContext(verify_mode, check_hostname) ==
    [verify_mode |-> verify_mode, check_hostname |-> check_hostname]

_create_unverified_context(runtime, check_hostname) ==
    CASE runtime = "absent" -> Raise("AttributeError")
      [] ~check_hostname    -> Return(SSLContext("CERT_NONE", FALSE))
      [] runtime = "rejects" -> Raise("ValueError")
      [] OTHER               -> Return(SSLContext("CERT_REQUIRED", TRUE))

create_default_context == Return(SSLContext("CERT_REQUIRED", TRUE))

(* create_ssl_context() *)

create_ssl_context(runtime) ==
    LET unverified == _create_unverified_context(runtime, TRUE)
    IN  IF unverified.kind = "raise" /\ unverified.exc = "AttributeError"
        THEN create_default_context
        ELSE unverified

\* what the certificate a server presents may be, to a verifying client
Trusts == {"valid", "self_signed", "expired", "untrusted_ca", "hostname_mismatch"}

\* the verification a handshake under context ctx makes of the peer's certificate
VerifyPeer(ctx, trust) ==
    IF ctx.verify_mode = "CERT_REQUIRED"
       /\ trust \in {"self_signed", "expired", "untrusted_ca"}
    THEN Raise("SSLCertVerificationError")
    ELSE IF ctx.check_hostname /\ trust = "hostname_mismatch"
         THEN Raise("SSLCertVerificationError")
         ELSE Return(trust)

\* SSLSocket.getpeercert(): the decoded certificate, and an empty dict when the
\* certificate was not validated
getpeercert(ctx, peer_cert) ==
    IF ctx.verify_mode = "CERT_NONE" THEN EmptyDict ELSE peer_cert

\* socket.create_connection(address, timeout): the errors it raises
ConnectErrors == {"gaierror", "timeout", "ConnectionRefusedError"}

\* ports connect() accepts at all; others raise OverflowError
ConnectablePort(p) == p \in 0..65535

\* the timeout of the SSLSocket that wrap_socket makes of sock: sock.gettimeout()
WrapTimeout(s) == s.timeout


\* create_connection called without timeout: the socket blocks
ConnectTimeoutMissing == <<>>

\* the timeout create_connection sets on the socket before connecting
ConnectTimeout == <<DEFAULT_SOCKET_TIMEOUT>>

NoSocket == [state |-> "none", timeout |-> <<>>]

-----------------------------------------------------------------------------
(* Distinguished names and certificates of the model. *)

Values == {"a", "b"}

\* attribute types of names given to _tuple_to_dict alone ("emailAddress" is
\* not in name_map)
LongNames == {"commonName", "countryName", "emailAddress"}

\* every attribute type of name_map and one outside it
AllLongNames == {name_map[k] : k \in DOMAIN name_map} \cup {"emailAddress"}

Seqs(S, n) == UNION {[1..k -> S] : k \in 0..n}

\* a name as ssl gives it: a tuple of RDN groups, each a tuple of one
\* (attribute type, value) pair
RdnGroups(names) == {<<<<n, v>>>> : n \in names, v \in Values}

\* a flattened name: a dict from some attribute types to values
Mappings(names) == UNION {[S -> Values] : S \in SUBSET names}

PeerCerts ==
    [issuer    : Seqs(RdnGroups({"commonName"}), MaxPeerRdn),
     subject   : Seqs(RdnGroups({"commonName"}), MaxPeerRdn),
     notBefore : {"Jan  1 00:00:00 2030 GMT"},
     notAfter  : {"Dec 31 23:30:00 2029 GMT", "junk"}]

IpAddresses == {"192.0.2.1"}

-----------------------------------------------------------------------------
(* The state of a call that has just been made. *)

Called(e, at, arg, host, p, name, mapping) ==
    /\ entry = e
    /\ pc = at
    /\ input = arg
    /\ domain = host
    /\ port = p
    /\ context = <<>>
    /\ sock = NoSocket
    /\ wrap_socket = NoSocket
    /\ progress = 0
    /\ elapsed = 0
    /\ peer = "unknown"
    /\ cert = <<>>
    /\ issuer = EmptyDict
    /\ subject = EmptyDict
    /\ ip = ""
    /\ cert_tuple = name
    /\ data = mapping
    /\ result = <<>>
    /\ exc = <<>>
    /\ events = <<>>

Did(stage, outcome) == Append(events, <<stage, outcome>>)

\* the exception e leaves the function at once (no enclosing with or try)
Raised(stage, e) ==
    /\ pc' = "raised"
    /\ exc' = <<e>>
    /\ events' = Did(stage, "raise")

-----------------------------------------------------------------------------
(* parse_domain_with_port, called alone or as the first line of            *)
(* get_cert_info.                                                          *)

Parse ==
    /\ pc = "parse"
    /\ LET r == parse_domain_with_port(input)
       IN  IF r.kind = "raise"
           THEN /\ Raised("parse", r.exc)
                /\ UNCHANGED <<domain, port, result>>
           ELSE /\ domain' = r.value.domain
                /\ port' = r.value.port
                /\ events' = Did("parse", "ok")
                /\ exc' = exc
                /\ IF entry = "parse_domain_with_port"
                   THEN pc' = "returned" /\ result' = <<r.value>>
                   ELSE pc' = "create_ssl_context" /\ result' = result
    /\ UNCHANGED <<entry, input, context, sock, wrap_socket, progress, elapsed,
                   peer, cert, issuer, subject, ip, cert_tuple, data>>

-----------------------------------------------------------------------------
(* get_domain_cert(host, port) *)

\* context = create_ssl_context()
CreateContext ==
    /\ pc = "create_ssl_context"
    /\ \E runtime \in Runtimes :
         LET r == create_ssl_context(runtime)
         IN  IF r.kind = "raise"
             THEN Raised("create_ssl_context", r.exc) /\ context' = context
             ELSE /\ context' = <<r.value>>
                  /\ pc' = "create_connection"
                  /\ events' = Did("create_ssl_context", "ok")
                  /\ exc' = exc
    /\ UNCHANGED <<entry, input, domain, port, sock, wrap_socket, progress,
                   elapsed, peer, cert, issuer, subject, ip, cert_tuple, data,
                   result>>

\* with socket.create_connection(address=(host, port), timeout=...) as sock:
\* a failed attempt leaves no socket behind
Connect ==
    /\ pc = "create_connection"
    /\ \/ /\ port \in 1..65535
          /\ sock' = [state |-> "open", timeout |-> ConnectTimeout]
          /\ pc' = "wrap_socket"
          /\ events' = Did("create_connection", "ok")
          /\ exc' = exc
       \/ /\ ConnectablePort(port)
          /\ \E e \in ConnectErrors : Raised("create_connection", e)
          /\ sock' = sock
       \/ /\ ~ConnectablePort(port)
          /\ Raised("create_connection", "OverflowError")
          /\ sock' = sock
    /\ UNCHANGED <<entry, input, domain, port, context, wrap_socket, progress,
                   elapsed, peer, cert, issuer, subject, ip, cert_tuple, data,
                   result>>

\* with context.wrap_socket(sock, server_hostname=host) as wrap_socket:
\* the SSLSocket takes the socket's timeout and starts the handshake
WrapSocket ==
    /\ pc = "wrap_socket"
    /\ wrap_socket' = [state |-> "handshaking", timeout |-> WrapTimeout(sock)]
    /\ pc' = "handshake"
    /\ events' = Did("wrap_socket", "ok")
    /\ UNCHANGED <<entry, input, domain, port, context, sock, progress, elapsed,
                   peer, cert, issuer, subject, ip, cert_tuple, data, result,
                   exc>>

\* the handshake's deadline (the socket's timeout, counted from its start) is over
Expired == wrap_socket.timeout # <<>> /\ elapsed >= wrap_socket.timeout[1]

\* the server sends its next flight
HandshakeRecv ==
    /\ pc = "handshake"
    /\ progress < HandshakeFlights
    /\ ~Expired
    /\ progress' = progress + 1
    /\ UNCHANGED <<entry, pc, input, domain, port, context, sock, wrap_socket,
                   elapsed, peer, cert, issuer, subject, ip, cert_tuple, data,
                   result, exc, events>>

\* a second passes while the handshake waits for the server
HandshakeWait ==
    /\ pc = "handshake"
    /\ progress < HandshakeFlights
    /\ ~Expired
    /\ elapsed < MaxBlocked
    /\ elapsed' = elapsed + 1
    /\ UNCHANGED <<entry, pc, input, domain, port, context, sock, wrap_socket,
                   progress, peer, cert, issuer, subject, ip, cert_tuple, data,
                   result, exc, events>>

\* wrap_socket raises e: SSLSocket closes itself, then the exception leaves
\* `with ... as sock'
HandshakeRaises(e) ==
    /\ wrap_socket' = [wrap_socket EXCEPT !.state = "closed"]
    /\ exc' = <<e>>
    /\ events' = Did("handshake", "raise") \o <<<<"close", "wrap_socket">>>>
    /\ pc' = "exit_sock"

HandshakeTimeout ==
    /\ pc = "handshake"
    /\ progress < HandshakeFlights
    /\ Expired
    /\ HandshakeRaises("timeout")
    /\ UNCHANGED <<entry, input, domain, port, context, sock, progress, elapsed,
                   peer, cert, issuer, subject, ip, cert_tuple, data, result>>

\* the server breaks the protocol or drops the connection
HandshakeAbort ==
    /\ pc = "handshake"
    /\ progress < HandshakeFlights
    /\ ~Expired
    /\ \E e \in {"SSLError", "ConnectionResetError"} : HandshakeRaises(e)
    /\ UNCHANGED <<entry, input, domain, port, context, sock, progress, elapsed,
                   peer, cert, issuer, subject, ip, cert_tuple, data, result>>

\* the server's flights are in: the certificate it presented is verified as
\* the context says
HandshakeFinish ==
    /\ pc = "handshake"
    /\ progress = HandshakeFlights
    /\ \E trust \in Trusts :
         /\ peer' = trust
         /\ LET v == VerifyPeer(context[1], trust)
            IN  IF v.kind = "raise"
                THEN HandshakeRaises(v.exc)
                ELSE /\ wrap_socket' = [wrap_socket EXCEPT !.state = "open"]
                     /\ pc' = "getpeercert"
                     /\ events' = Did("handshake", "ok")
                     /\ exc' = exc
    /\ UNCHANGED <<entry, input, domain, port, context, sock, progress, elapsed,
                   cert, issuer, subject, ip, cert_tuple, data, result>>


\* getpeercert with the sockets not held by `with': an exception leaves the
\* function with both open
GetPeerCertWithoutWith ==
    /\ pc = "getpeercert"
    /\ \/ /\ \E c \in PeerCerts : cert' = <<getpeercert(context[1], c)>>
          /\ events' = Did("getpeercert", "ok")
          /\ exc' = exc
          /\ pc' = "exit_wrap_socket"
       \/ /\ exc' = <<"SSLError">>
          /\ events' = Did("getpeercert", "raise")
          /\ cert' = cert
          /\ pc' = "raised"
    /\ UNCHANGED <<entry, input, domain, port, context, sock, wrap_socket,
                   progress, elapsed, peer, issuer, subject, ip, cert_tuple,
                   data, result>>

\* return wrap_socket.getpeercert()
GetPeerCert ==
    /\ pc = "getpeercert"
    /\ \/ /\ \E c \in PeerCerts : cert' = <<getpeercert(context[1], c)>>
          /\ events' = Did("getpeercert", "ok")
          /\ exc' = exc
       \/ /\ exc' = <<"SSLError">>
          /\ events' = Did("getpeercert", "raise")
          /\ cert' = cert
    /\ pc' = "exit_wrap_socket"
    /\ UNCHANGED <<entry, input, domain, port, context, sock, wrap_socket,
                   progress, elapsed, peer, issuer, subject, ip, cert_tuple,
                   data, result>>

\* leaving `with ... as wrap_socket', by return or by exception
ExitWrapSocket ==
    /\ pc = "exit_wrap_socket"
    /\ wrap_socket' = [wrap_socket EXCEPT !.state = "closed"]
    /\ events' = Did("close", "wrap_socket")
    /\ pc' = "exit_sock"
    /\ UNCHANGED <<entry, input, domain, port, context, sock, progress, elapsed,
                   peer, cert, issuer, subject, ip, cert_tuple, data, result,
                   exc>>

\* leaving `with ... as sock', by return or by exception; then the call is over
ExitSock ==
    /\ pc = "exit_sock"
    /\ sock' = [sock EXCEPT !.state = "closed"]
    /\ events' = Did("close", "sock")
    /\ IF exc # <<>>
       THEN pc' = "raised" /\ result' = result
       ELSE IF entry = "get_domain_cert"
            THEN pc' = "returned" /\ result' = cert
            ELSE pc' = "flatten" /\ result' = result
    /\ UNCHANGED <<entry, input, domain, port, context, wrap_socket, progress,
                   elapsed, peer, cert, issuer, subject, ip, cert_tuple, data,
                   exc>>

-----------------------------------------------------------------------------
(* get_cert_info(domain_with_port), after cert = get_domain_cert(domain, port) *)

\* issuer = _tuple_to_dict(cert['issuer']); subject = _tuple_to_dict(cert['subject'])
Flatten ==
    /\ pc = "flatten"
    /\ LET c == cert[1]
       IN  IF {"issuer", "subject"} \subseteq DOMAIN c
           THEN /\ issuer' = _tuple_to_dict(c.issuer)
                /\ subject' = _tuple_to_dict(c.subject)
                /\ pc' = "get_domain_ip"
                /\ events' = Did("flatten", "ok")
                /\ exc' = exc
           ELSE /\ Raised("flatten", "KeyError")
                /\ UNCHANGED <<issuer, subject>>
    /\ UNCHANGED <<entry, input, domain, port, context, sock, wrap_socket,
                   progress, elapsed, peer, cert, ip, cert_tuple, data, result>>


\* get_domain_ip with a failed lookup turned into an empty address
GetDomainIpSwallowsError ==
    /\ pc = "get_domain_ip"
    /\ \/ /\ \E a \in IpAddresses : ip' = a
          /\ events' = Did("get_domain_ip", "ok")
       \/ /\ ip' = ""
          /\ events' = Did("get_domain_ip", "raise")
    /\ pc' = "summarise"
    /\ UNCHANGED <<entry, input, domain, port, context, sock, wrap_socket,
                   progress, elapsed, peer, cert, issuer, subject, cert_tuple,
                   data, result, exc>>

\* 'ip': get_domain_ip(domain), that is socket.gethostbyname(domain)
GetDomainIp ==
    /\ pc = "get_domain_ip"
    /\ \/ /\ \E a \in IpAddresses : ip' = a
          /\ pc' = "summarise"
          /\ events' = Did("get_domain_ip", "ok")
          /\ exc' = exc
       \/ /\ Raised("get_domain_ip", "gaierror")
          /\ ip' = ip
    /\ UNCHANGED <<entry, input, domain, port, context, sock, wrap_socket,
                   progress, elapsed, peer, cert, issuer, subject, cert_tuple,
                   data, result>>


\* the returned dict with the parsed host in place of the argument
CertInfoBareHost(domain_with_port, host, addr, subj, iss, start, expire) ==
    [domain      |-> host,
     ip          |-> addr,
     subject     |-> _name_convert(subj),
     issuer      |-> _name_convert(iss),
     start_date  |-> start,
     expire_date |-> expire]

\* the dict get_cert_info returns
CertInfo(domain_with_port, host, addr, subj, iss, start, expire) ==
    [domain      |-> domain_with_port,
     ip          |-> addr,
     subject     |-> _name_convert(subj),
     issuer      |-> _name_convert(iss),
     start_date  |-> start,
     expire_date |-> expire]

\* the rest of the returned dict: the names re-keyed, the two times parsed
Summarise ==
    /\ pc = "summarise"
    /\ \E offset \in LocalUtcOffsets :
         LET start  == _parse_time(cert[1].notBefore, offset)
             expire == _parse_time(cert[1].notAfter, offset)
         IN  IF start.kind = "raise" \/ expire.kind = "raise"
             THEN /\ Raised("summarise", "ParserError")
                  /\ result' = result
             ELSE /\ result' = <<CertInfo(input, domain, ip, subject, issuer,
                                          start.value, expire.value)>>
                  /\ pc' = "returned"
                  /\ events' = Did("summarise", "ok")
                  /\ exc' = exc
    /\ UNCHANGED <<entry, input, domain, port, context, sock, wrap_socket,
                   progress, elapsed, peer, cert, issuer, subject, ip,
                   cert_tuple, data>>

-----------------------------------------------------------------------------
(* _tuple_to_dict and _name_convert, called on a name as get_cert_info     *)
(* calls them: data = _tuple_to_dict(cert_tuple), then _name_convert(data). *)

TupleToDictCall ==
    /\ pc = "tuple_to_dict"
    /\ data' = _tuple_to_dict(cert_tuple)
    /\ pc' = "name_convert"
    /\ events' = Did("tuple_to_dict", "ok")
    /\ UNCHANGED <<entry, input, domain, port, context, sock, wrap_socket,
                   progress, elapsed, peer, cert, issuer, subject, ip,
                   cert_tuple, result, exc>>

NameConvertCall ==
    /\ pc = "name_convert"
    /\ result' = <<_name_convert(data)>>
    /\ pc' = "returned"
    /\ events' = Did("name_convert", "ok")
    /\ UNCHANGED <<entry, input, domain, port, context, sock, wrap_socket,
                   progress, elapsed, peer, cert, issuer, subject, ip,
                   cert_tuple, data, exc>>

-----------------------------------------------------------------------------
(* The calls made, and the specifications. *)

Alphabet == {"h", ":", "9", "0", "-", "+", " ", "_"}

\* the arguments given to parse_domain_with_port alone: every short string,
\* and "h:" followed by digits up to a port number of MaxDigits digits
ParseInputs ==
    Seqs(Alphabet, MaxLen)
      \cup {<<"h", ":">> \o d : d \in Seqs({"0", "6", "9"}, MaxDigits)}

\* the arguments given to get_cert_info
InfoInputs == Seqs({"h", ":", "9", "-"}, MaxInfoLen)

\* the arguments given to get_domain_cert alone
FetchHosts == {<<"h">>}
FetchPorts == {SSL_DEFAULT_PORT, 8443, 65536}

InitParse ==
    \E arg \in ParseInputs :
        Called("parse_domain_with_port", "parse", arg, <<>>, 0, <<>>, EmptyDict)

NextParse == Parse

SpecParse == InitParse /\ [][NextParse]_vars

InitFetch ==
    \E host \in FetchHosts, p \in FetchPorts :
        Called("get_domain_cert", "create_ssl_context", <<>>, host, p, <<>>,
               EmptyDict)

NextFetch ==
    \/ CreateContext
    \/ Connect
    \/ WrapSocket
    \/ HandshakeRecv
    \/ HandshakeWait
    \/ HandshakeTimeout
    \/ HandshakeAbort
    \/ HandshakeFinish
    \/ GetPeerCert
    \/ ExitWrapSocket
    \/ ExitSock

\* the steps the interpreter and the clock take by themselves; what the server
\* sends, or whether it sends at all, is up to the server
FetchProgress ==
    \/ CreateContext
    \/ Connect
    \/ WrapSocket
    \/ HandshakeWait
    \/ HandshakeTimeout
    \/ HandshakeFinish
    \/ GetPeerCert
    \/ ExitWrapSocket
    \/ ExitSock

SpecFetch == InitFetch /\ [][NextFetch]_vars /\ WF_vars(FetchProgress)

Init ==
    \E arg \in InfoInputs :
        Called("get_cert_info", "parse", arg, <<>>, 0, <<>>, EmptyDict)

Next ==
    \/ Parse
    \/ NextFetch
    \/ Flatten
    \/ GetDomainIp
    \/ Summarise

Spec == Init /\ [][Next]_vars

InitNames ==
    \/ \E name \in Seqs(RdnGroups(LongNames), MaxRdn) :
          Called("_tuple_to_dict", "tuple_to_dict", <<>>, <<>>, 0, name,
                 EmptyDict)
    \/ \E mapping \in Mappings(AllLongNames) :
          Called("_name_convert", "name_convert", <<>>, <<>>, 0, <<>>, mapping)

NextNames == TupleToDictCall \/ NameConvertCall

SpecNames == InitNames /\ [][NextNames]_vars

-----------------------------------------------------------------------------
(* Properties. *)

Terminal == pc \in {"returned", "raised"}

\* the stages that ran, without the closing of sockets
Stages == SelectSeq(events, LAMBDA ev : ev[1] # "close")

\* position of the first event ev in the history, 0 when there is none
FirstIndex(ev) ==
    IF \E i \in DOMAIN events : events[i] = ev
    THEN CHOOSE i \in DOMAIN events :
             events[i] = ev /\ \A j \in 1..(i - 1) : events[j] # ev
    ELSE 0

Count(ev) == Cardinality({i \in DOMAIN events : events[i] = ev})

\* the text left of the first colon (all of it when there is none), and the text
\* right of it
HostText(s) == Split(s, ":")[1]
PortText(s) == SubSeq(s, Len(HostText(s)) + 2, Len(s))

AllDigits(t) == t # <<>> /\ \A i \in DOMAIN t : t[i] \in Digits

RECURSIVE Pow10(_)
Pow10(n) == IF n = 0 THEN 1 ELSE 10 * Pow10(n - 1)

\* the number a string of digits writes in base ten
Decimal(t) ==
    LET Weighted[i \in 0..Len(t)] ==
            IF i = 0 THEN 0
            ELSE Weighted[i - 1] + DigitValue(t[i]) * Pow10(Len(t) - i)
    IN  Weighted[Len(t)]

\* a decimal integer: digits, with or without a minus sign
DecimalInteger(t) == AllDigits(t) \/ (t # <<>> /\ Head(t) = "-" /\ AllDigits(Tail(t)))
DecimalIntegerValue(t) == IF Head(t) = "-" THEN 0 - Decimal(Tail(t)) ELSE Decimal(t)

\* C1: whatever the trust status of the certificate the server presents, once the
\* TCP connect has succeeded and the TLS exchange has completed, get_domain_cert
\* does not end in a verification error, and what it returns is the peer's
\* certificate with issuer, subject, notBefore and notAfter.
C1_FetchIgnoresTrust ==
    (entry = "get_domain_cert" /\ Terminal /\ peer \in Trusts)
        => /\ exc # <<"SSLCertVerificationError">>
           /\ pc = "returned"
                => /\ result # <<>>
                   /\ {"issuer", "subject", "notBefore", "notAfter"}
                          \subseteq DOMAIN result[1]

\* C2: parse_domain_with_port raises, and returns no Target, for every input
\* whose text after the colon is not a non-negative integer and for every input
\* whose hostname part is empty.
C2_InvalidTargetsRejected ==
    (entry = "parse_domain_with_port" /\ Terminal)
        => (((Contains(input, ":") /\ ~AllDigits(PortText(input)))
                \/ HostText(input) = <<>>)
              => pc = "raised" /\ result = <<>>)

\* C3: the port of every Target that parse_domain_with_port returns is in
\* 1..65535, so get_cert_info never goes on to get_domain_cert with a port
\* outside that range.
C3_PortInRange ==
    (entry = "get_cert_info" /\ pc \notin {"parse", "raised"})
        => port \in 1..65535

\* C4: in get_cert_info a stage that fails ends the call with that exception: no
\* stage runs after it (only the sockets are closed), no stage runs twice, and a
\* summary is returned only after every stage, in order, has succeeded.
C4_FailFast ==
    entry = "get_cert_info"
        => /\ \A i \in DOMAIN events :
                events[i][2] = "raise"
                    => /\ \A j \in (i + 1)..Len(events) : events[j][1] = "close"
                       /\ result = <<>>
                       /\ pc # "returned"
                       /\ exc # <<>>
           /\ \A i, j \in DOMAIN Stages : Stages[i][1] = Stages[j][1] => i = j
           /\ (pc = "returned" \/ result # <<>>)
                => /\ pc = "returned"
                   /\ result # <<>>
                   /\ Stages = << <<"parse", "ok">>,
                                  <<"create_ssl_context", "ok">>,
                                  <<"create_connection", "ok">>,
                                  <<"wrap_socket", "ok">>,
                                  <<"handshake", "ok">>,
                                  <<"getpeercert", "ok">>,
                                  <<"flatten", "ok">>,
                                  <<"get_domain_ip", "ok">>,
                                  <<"summarise", "ok">> >>

\* C4's case: every stage but the last succeeded, the timestamps did not parse,
\* and the call raised.
C4_Witness ==
    /\ entry = "get_cert_info"
    /\ pc = "raised"
    /\ Len(Stages) = 9
    /\ Stages[9] = <<"summarise", "raise">>
    /\ result = <<>>

\* C5: for an input without a colon parse_domain_with_port returns the whole
\* input as hostname and port 443; for host:N, N a decimal integer, it returns
\* the text left of the colon as hostname and N as port.
C5_ParseSplitsHostAndPort ==
    (entry = "parse_domain_with_port" /\ Terminal)
        => /\ ~Contains(input, ":")
                => /\ pc = "returned"
                   /\ result = <<[domain |-> input, port |-> 443]>>
           /\ (Len(Split(input, ":")) = 2 /\ DecimalInteger(PortText(input)))
                => /\ pc = "returned"
                   /\ result = <<[domain |-> HostText(input),
                                  port   |-> DecimalIntegerValue(PortText(input))]>>

\* C5's case: "h:" and a port of four digits or more.
C5_Witness ==
    /\ entry = "parse_domain_with_port"
    /\ pc = "returned"
    /\ Contains(input, ":")
    /\ result[1].domain = <<"h">>
    /\ result[1].port > 1000

\* the long name the claim gives for each short code
ClaimedLongName(k) ==
    CASE k = "C" -> "countryName"
      [] k = "CN" -> "commonName"
      [] k = "O" -> "organizationName"
      [] k = "OU" -> "organizationalUnitName"
      [] k = "L" -> "localityName"
      [] k = "ST" -> "stateOrProvinceName"

ShortCodes == {"C", "CN", "O", "OU", "L", "ST"}

\* C6: the result of _name_convert has exactly the keys C, CN, O, OU, L, ST, each
\* with the value of its long name in the mapping given, or '' when it is absent.
C6_SixKeys ==
    (entry \in {"_name_convert", "_tuple_to_dict"} /\ pc = "returned")
        => /\ DOMAIN result[1] = ShortCodes
           /\ \A k \in ShortCodes :
                result[1][k] = IF ClaimedLongName(k) \in DOMAIN data
                               THEN data[ClaimedLongName(k)]
                               ELSE ""

\* C6's case: a mapping with a mapped attribute, an unmapped one, and one missing.
C6_Witness ==
    /\ entry = "_name_convert"
    /\ pc = "returned"
    /\ {"commonName", "emailAddress"} \subseteq DOMAIN data
    /\ "countryName" \notin DOMAIN data

\* C7: the domain field of the summary get_cert_info returns is its argument, as
\* given, with or without a port.
C7_DomainIsInput ==
    (entry = "get_cert_info" /\ pc = "returned") => result[1].domain = input

\* C7's case: a summary returned for an argument that carries a port.
C7_Witness ==
    /\ entry = "get_cert_info"
    /\ pc = "returned"
    /\ Contains(input, ":")
    /\ result[1].domain # domain

\* C8: a handshake never blocks past the 5 seconds of the socket's timeout, and a
\* call that has reached the handshake always comes to an end, whatever the
\* server sends or does not send.
C8_HandshakeEnds ==
    /\ [](pc = "handshake" => elapsed <= DEFAULT_SOCKET_TIMEOUT)
    /\ (pc = "handshake") ~> Terminal

\* C8's case: the server stopped in the middle of the handshake and the call
\* ended with a timeout.
C8_Witness ==
    /\ entry = "get_domain_cert"
    /\ pc = "raised"
    /\ exc = <<"timeout">>
    /\ progress = 1
    /\ elapsed = DEFAULT_SOCKET_TIMEOUT

\* C9: a call of get_domain_cert makes at most one connection and one handshake,
\* and when it is over no socket is open: the SSL socket was closed, and before
\* the TCP socket.
C9_SocketsReleased ==
    /\ Count(<<"create_connection", "ok">>) <= 1
    /\ Count(<<"wrap_socket", "ok">>) <= 1
    /\ Terminal
         => /\ sock.state \in {"none", "closed"}
            /\ wrap_socket.state \in {"none", "closed"}
            /\ sock.state = "closed" <=> Count(<<"create_connection", "ok">>) = 1
            /\ wrap_socket.state = "closed" <=> Count(<<"wrap_socket", "ok">>) = 1
            /\ wrap_socket.state = "closed"
                 => /\ sock.state = "closed"
                    /\ FirstIndex(<<"close", "wrap_socket">>)
                           < FirstIndex(<<"close", "sock">>)

\* C9's case: getpeercert raised with both sockets open.
C9_Witness ==
    /\ entry = "get_domain_cert"
    /\ pc = "raised"
    /\ Count(<<"getpeercert", "raise">>) = 1
    /\ sock.state = "closed"
    /\ wrap_socket.state = "closed"

\* the attribute types occurring in a name, and the value of the last
\* occurrence of one
NamesIn(items) == {items[i][1][1] : i \in DOMAIN items}
LastValue(items, n) ==
    LET last == CHOOSE i \in DOMAIN items :
                    /\ items[i][1][1] = n
                    /\ \A j \in (i + 1)..Len(items) : items[j][1][1] # n
    IN  items[last][1][2]

\* C10: _tuple_to_dict maps exactly the long names occurring in the name, each to
\* the value of its last occurrence; so does the short code of it in the result
\* of _name_convert.
C10_LastWriteWins ==
    (entry = "_tuple_to_dict" /\ pc \in {"name_convert", "returned"})
        => /\ DOMAIN data = NamesIn(cert_tuple)
           /\ \A n \in NamesIn(cert_tuple) : data[n] = LastValue(cert_tuple, n)
           /\ pc = "returned"
                => \A k \in ShortCodes :
                      ClaimedLongName(k) \in NamesIn(cert_tuple)
                          => result[1][k]
                                 = LastValue(cert_tuple, ClaimedLongName(k))

\* C10's case: a name with the same attribute twice, with two values.
C10_Witness ==
    /\ entry = "_tuple_to_dict"
    /\ pc = "returned"
    /\ \E i, j \in DOMAIN cert_tuple :
          /\ i < j
          /\ cert_tuple[i][1][1] = "commonName"
          /\ cert_tuple[j][1][1] = "commonName"
          /\ cert_tuple[i][1][2] # cert_tuple[j][1][2]

=============================================================================
